---- MODULE Spec2Model ----
(***************************************************************************)
(* Model of the matchmaker of agentic_adoption (src/matchmaker/matcher.py) *)
(* together with the retriever it calls (src/db/repository.py).            *)
(*                                                                         *)
(* Scores are exact rationals <<n, d>> (d > 0) in units of one percent:    *)
(* <<50, 1>> is the Python float 0.5.  A blended score is an integer in    *)
(* units of 1e-4, which is what round(x, 4) yields.  A text is a sequence  *)
(* of tokens; the token " " is whitespace, every other token is a run of   *)
(* non-whitespace text.                                                    *)
(***************************************************************************)
EXTENDS Integers, Sequences, FiniteSets, TLC

\* ---------------------------------------------------------------- bounds
NumPets == 3            \* most pets stored in the database
MaxResultsBound == 2    \* largest query.max_results explored (schema: 50)
MaxReturned == 2        \* most scores in one model reply
MaxDirectPets == 4      \* most pets in a direct _score_all_pets call
LargeDbPets == 9        \* pets of the one large database explored
MaxRetriesArg == 3      \* largest max_retries given to retry_with_backoff
MaxAsks == 22           \* most successful asks of a session between clears
MaxBadReplies == 1      \* most chat replies whose content is null
MaxOldJobs == 2         \* most crawl jobs stored before the request
MaxTextLen == 5         \* most tokens of a text given to _extract_json

\* ------------------------------------------------------- program constants
BATCH_SIZE == 3
MAX_WORKERS == 1
LOW_CONFIDENCE_THRESHOLD == <<55, 1>>
MAX_AGENT_ROUNDS == 2
NEUTRAL == <<50, 1>>
None == <<>>                        \* None where a score or a tuple is expected
NoFilter == "None"                  \* species_filter = None
NoResponse == [kind |-> "None"]     \* match_pets has not returned

\* ------------------------------------------------------------ input sets
SpeciesValues == {"dog", "cat"}
SimValues == {-40, 90}
\* the numbers a model reply may hold: in a match request, and in a direct
\* call of _score_all_pets (which also explores a negative one)
RawScoreValues == {30, 150}
DirectRawScoreValues == {-50, 30, 150}

\* ------------------------------------------------------------- rationals
RLeq(a, b) == a[1] * b[2] <= b[1] * a[2]
RLt(a, b) == a[1] * b[2] < b[1] * a[2]
REq(a, b) == a[1] * b[2] = b[1] * a[2]
InUnit(a) == a # None /\ a[2] > 0 /\ 0 <= a[1] /\ a[1] <= 100 * a[2]

Min(a, b) == IF a <= b THEN a ELSE b
Max(a, b) == IF a >= b THEN a ELSE b

RECURSIVE SumNum(_, _)
\* numerator of the sum of the rationals of sequence s over the common
\* denominator den (every s[i][2] divides den)
SumNum(s, den) ==
    IF s = <<>> THEN 0
    ELSE Head(s)[1] * (den \div Head(s)[2]) + SumNum(Tail(s), den)

RECURSIVE ProdDen(_)
ProdDen(s) == IF s = <<>> THEN 1 ELSE Head(s)[2] * ProdDen(Tail(s))

\* sum(valid_scores) / len(valid_scores)
Mean(s) == <<SumNum(s, ProdDen(s)), ProdDen(s) * Len(s)>>

RECURSIVE SeqOfSet(_)
\* the values of a dict in key order
SeqOfSet(S) ==
    IF S = {} THEN <<>>
    ELSE LET m == CHOOSE x \in S : \A y \in S : x <= y
         IN <<m>> \o SeqOfSet(S \ {m})

Values(d) == [i \in 1..Len(SeqOfSet(DOMAIN d)) |-> d[SeqOfSet(DOMAIN d)[i]]]

\* ------------------------------------------------------------ _score_batch
\* what one call of the reasoning endpoint for a batch produces
ScoreLists(values) == UNION {[1..k -> values] : k \in 0..MaxReturned}
BatchOutcomes(values) ==
    {[kind |-> k, scores |-> <<>>] :
        k \in {"timeout", "connect", "http_error", "malformed",
               "bad_shape", "no_scores_key", "non_numeric"}}
    \cup {[kind |-> k, scores |-> l] :
            k \in {"dict", "list"}, l \in ScoreLists(values)}
    \* {"scores": x} with a single number x
    \cup {[kind |-> "scalar", scores |-> <<x>>] : x \in values \cup {0}}

\* the score passed through without clamping
ClampNone(s) == <<s, 1>>

Clamp(s) == <<Max(0, Min(100, s)), 1>>

\* missing scores filled with 0
PadTrimZero(scores, n) ==
    [i \in 1..n |-> IF i <= Len(scores) THEN scores[i] ELSE 0]

\* line 291
PadTrim(scores, n) ==
    [i \in 1..n |-> IF i <= Len(scores) THEN scores[i] ELSE 50]

\* the exception a failing call of the endpoint or a bad reply raises inside
\* the try block of _score_batch
ScoreException(kind) ==
    CASE kind = "timeout" -> "TimeoutException"
      [] kind = "connect" -> "ConnectError"
      [] kind = "http_error" -> "HTTPStatusError"
      [] kind \in {"malformed", "bad_shape", "non_numeric"} -> "ValueError"
      [] OTHER -> ""

\* body of _score_batch for a batch of n pets: a list of n clamped scores,
\* or ok = FALSE for the None it returns from its except clause; exc is the
\* exception that leaves the function ("" for none: `except Exception`
\* catches whatever the try block raised)
ScoreBatchBody(o, n) ==
    IF n = 0 THEN [exc |-> "", ok |-> TRUE, scores |-> <<>>]
    ELSE IF ScoreException(o.kind) # ""
         THEN [exc |-> "", ok |-> FALSE, scores |-> <<>>]
    ELSE LET \* lines 277-284: `data.get("scores") or data.get("score")`
             \* drops a number 0 like a missing key
             parsed == IF o.kind = "no_scores_key" THEN <<>>
                       ELSE IF o.kind = "scalar" /\ o.scores[1] = 0 THEN <<>>
                       ELSE o.scores
             fitted == IF Len(parsed) # n THEN PadTrim(parsed, n) ELSE parsed
         IN [exc |-> "", ok |-> TRUE,
             scores |-> [i \in 1..n |-> Clamp(fitted[i])]]

\* -------------------------------------------------------- retry_with_backoff
\* the decorator's arguments on _score_batch
MAX_RETRIES == 2
\* the exceptions the wrapper catches
RetryableErrors == {"TimeoutException", "ConnectError", "ValueError"}

\* every exception caught and retried
RetryStepAnyError(exc, attempt, max_retries) ==
    IF exc = "" THEN "return"
    ELSE IF attempt < max_retries THEN "retry"
    ELSE "raise"

\* lines 112-121: what the wrapper does after the call number `attempt`
\* (from 0) of the wrapped function raised exc ("" for a normal return):
\* return its value, sleep and call again, or let the exception out (at
\* once if it is not caught, as last_err after the loop otherwise)
RetryStep(exc, attempt, max_retries) ==
    IF exc = "" THEN "return"
    ELSE IF exc \in RetryableErrors /\ attempt < max_retries THEN "retry"
    ELSE "raise"

\* the wrapper of _score_batch (line 251)
WrapperStep(r, attempt) == RetryStep(r.exc, attempt, MAX_RETRIES)

\* ---------------------------------------------------------- _score_all_pets
\* batches[b] is the list of indices of the b-th chunk
NumBatches(n) == (n + BATCH_SIZE - 1) \div BATCH_SIZE
BatchIndices(n, b) ==
    [i \in 1..Min(BATCH_SIZE, n - (b - 1) * BATCH_SIZE) |->
        (b - 1) * BATCH_SIZE + i - 1]

\* the batch of index i, and i's position in it
BatchOf(i) == (i \div BATCH_SIZE) + 1
PosIn(i) == (i % BATCH_SIZE) + 1

\* a batch's scores stored behind those already there, in the order the
\* batches are consumed
RecordBatchAppended(scores, idxs, res) ==
    LET base == Cardinality(DOMAIN scores)
    IN IF res.ok
       THEN [i \in {base + j - 1 : j \in 1..Min(Len(idxs), Len(res.scores))} |->
                res.scores[i - base + 1]] @@ scores
       ELSE [i \in {base + j - 1 : j \in 1..Len(idxs)} |-> None] @@ scores

\* lines 334-341: record a batch's scores, or None for each of its indices
RecordBatch(scores, idxs, res) ==
    IF res.ok
    THEN [i \in {idxs[j] : j \in 1..Min(Len(idxs), Len(res.scores))} |->
            res.scores[CHOOSE j \in 1..Len(idxs) : idxs[j] = i]] @@ scores
    ELSE [i \in {idxs[j] : j \in 1..Len(idxs)} |-> None] @@ scores

\* the neutral value whatever was scored
FallbackNeutral(scores) == NEUTRAL

\* lines 345-346
Fallback(scores) ==
    LET valid == SelectSeq(Values(scores), LAMBDA s : s # None)
    IN IF valid # <<>> THEN Mean(valid) ELSE NEUTRAL

\* a failed candidate scored 0
FillFallbackZero(scores) ==
    [i \in DOMAIN scores |->
        IF scores[i] = None THEN <<0, 1>> ELSE scores[i]]

\* lines 347-349
FillFallback(scores) ==
    [i \in DOMAIN scores |->
        IF scores[i] = None THEN Fallback(scores) ELSE scores[i]]


\* ------------------------------------------------------------------ texts
Whitespace == " "
\* the explanation texts explored: empty, whitespace only, and text with
\* and without surrounding whitespace
Texts == {<<>>, <<Whitespace>>, <<"x">>, <<Whitespace, "x", Whitespace>>}

RECURSIVE LStrip(_)
LStrip(t) ==
    IF t # <<>> /\ Head(t) = Whitespace THEN LStrip(Tail(t)) ELSE t

RECURSIVE RStrip(_)
RStrip(t) ==
    IF t # <<>> /\ t[Len(t)] = Whitespace
    THEN RStrip(SubSeq(t, 1, Len(t) - 1)) ELSE t

\* str.strip()
Strip(t) == RStrip(LStrip(t))

Tok(s) == IF s = "" THEN <<>> ELSE <<s>>

RECURSIVE Join(_, _)
\* sep.join(parts)
Join(sep, parts) ==
    IF parts = <<>> THEN <<>>
    ELSE IF Len(parts) = 1 THEN Tok(parts[1])
    ELSE Tok(parts[1]) \o sep \o Join(sep, Tail(parts))

\* ------------------------------------------------------------------- pets
\* the structured attributes of the stored pets, by pet id
PetTable(id) ==
    CASE id = 1 -> [name |-> "Rex", breed |-> "Labrador",
                    energy_level |-> "high", size |-> "large",
                    first_sentence |-> "Loves long walks", first_len |-> 16,
                    good_with_children |-> TRUE, good_with_dogs |-> TRUE,
                    good_with_cats |-> FALSE]
      [] id = 2 -> [name |-> "Milo", breed |-> "Tabby",
                    energy_level |-> "unknown", size |-> "small",
                    first_sentence |-> "Shy", first_len |-> 3,
                    good_with_children |-> FALSE, good_with_dogs |-> FALSE,
                    good_with_cats |-> TRUE]
      [] id = 3 -> [name |-> "Luna", breed |-> "Beagle",
                    energy_level |-> "", size |-> "unknown",
                    first_sentence |-> "", first_len |-> 0,
                    good_with_children |-> FALSE, good_with_dogs |-> FALSE,
                    good_with_cats |-> FALSE]
      [] OTHER  -> [name |-> "Pet" \o ToString(id), breed |-> "Mixed",
                    energy_level |-> "low", size |-> "medium",
                    first_sentence |-> "", first_len |-> 0,
                    good_with_children |-> TRUE, good_with_dogs |-> FALSE,
                    good_with_cats |-> FALSE]

\* _pet_fallback_reasoning
PetFallbackReasoning(pet) ==
    LET traits ==
            (IF pet.energy_level # "" /\ pet.energy_level # "unknown"
             THEN <<pet.energy_level \o "-energy">> ELSE <<>>)
            \o (IF pet.size # "" /\ pet.size # "unknown"
                THEN <<pet.size \o "-sized">> ELSE <<>>)
        personality_snippet ==
            IF pet.first_sentence # "" /\ pet.first_len > 10
            THEN <<Whitespace, pet.first_sentence \o ".">> ELSE <<>>
        compat_parts ==
            (IF pet.good_with_children THEN <<"children">> ELSE <<>>)
            \o (IF pet.good_with_dogs THEN <<"dogs">> ELSE <<>>)
            \o (IF pet.good_with_cats THEN <<"cats">> ELSE <<>>)
        compat_str ==
            IF compat_parts # <<>>
            THEN <<Whitespace, "Gets along well with", Whitespace>>
                 \o Join(<<",", Whitespace>>, compat_parts) \o <<".">>
            ELSE <<>>
        trait_str ==
            IF traits # <<>>
            THEN <<Whitespace>> \o Join(<<Whitespace>>, traits) ELSE <<>>
    IN Tok(pet.name) \o <<Whitespace, "is a">> \o trait_str
       \o <<Whitespace>> \o Tok(pet.breed)
       \o <<Whitespace, "who could be a great companion.">>
       \o personality_snippet \o compat_str

\* ------------------------------------------------------------ _explain_one
ExplainOutcomes ==
    {[kind |-> k, text |-> <<>>] :
        k \in {"timeout", "connect", "http_error", "malformed",
               "non_object", "no_key"}}
    \cup {[kind |-> "text", text |-> t] : t \in Texts}

ExplainOne(o, pet) ==
    IF o.kind \in {"timeout", "connect", "http_error", "malformed",
                   "non_object"}
    THEN PetFallbackReasoning(pet)
    ELSE LET explanation == IF o.kind = "no_key" THEN <<>> ELSE o.text
         IN IF explanation # <<>> THEN Strip(explanation)
            ELSE PetFallbackReasoning(pet)

\* ---------------------------------------------- PetRepository.vector_search
\* db is kept in the order of order_by(distance_expr): best similarity first
VectorSearch(database, top_k, species_filter) ==
    LET hits == SelectSeq(database,
                    LAMBDA p : species_filter = NoFilter
                               \/ p.species = species_filter)
    IN [i \in 1..Min(top_k, Len(hits)) |->
            [pet |-> hits[i].id, score |-> hits[i].sim]]

\* ----------------------------------------------------------------- ranking
DictMax(d, default) ==
    IF DOMAIN d = {} THEN default
    ELSE d[CHOOSE i \in DOMAIN d : \A j \in DOMAIN d : RLeq(d[j], d[i])]

Get(d, k, default) == IF k \in DOMAIN d THEN d[k] ELSE default

RECURSIVE SortedDesc(_, _)
\* sorted(S, key=lambda i: rel.get(i, 0.0), reverse=True): stable, so equal
\* keys keep the ascending order of range()
SortedDesc(S, rel) ==
    IF S = {} THEN <<>>
    ELSE LET key(i) == Get(rel, i, <<0, 1>>)
             top == CHOOSE i \in S :
                        \A j \in S : RLt(key(j), key(i))
                                     \/ (REq(key(j), key(i)) /\ i <= j)
         IN <<top>> \o SortedDesc(S \ {top}, rel)

Prefix(s, n) == SubSeq(s, 1, Min(n, Len(s)))

\* Python round(): nearest integer to p / q (q > 0), ties to even
RoundHalfEven(p, q) ==
    LET f == p \div q
        r == p - f * q
    IN IF 2 * r < q THEN f
       ELSE IF 2 * r > q THEN f + 1
       ELSE IF f % 2 = 0 THEN f ELSE f + 1

\* round(llm_weight * llm_score + vec_weight * vec_score, 4), the weights in
\* tenths, the result in units of 1e-4
Blend(llm_weight, vec_weight, llm_score, vec_score) ==
    RoundHalfEven(
        (llm_weight * llm_score[1] + vec_weight * vec_score * llm_score[2]) * 10,
        llm_score[2])

\* the model's weight whatever the flag
LlmWeightFixed(scored) == 7

LlmWeight(scored) == IF scored THEN 7 ELSE 1
VecWeight(scored) == IF scored THEN 3 ELSE 9


\* ------------------------------------------------------------------ state
VARIABLES
    entry,              \* the function called: "match_pets" or "_score_all_pets"
    pc,                 \* position of the request
    db,                 \* the stored pets with an embedding, best match first
    query,              \* the MatchQuery
    pet_objects,        \* candidate pool: list of pet ids
    similarity_scores,  \* dict: pool index -> similarity
    relevance_scores,   \* dict: pool index -> relevance
    llm_scored,
    best_score,
    agent_round,
    new_pairs,          \* the de-duplicated candidates of the current round
    pets,               \* _score_all_pets: the pets being scored
    scores,             \* _score_all_pets: dict index -> score or None
    llm_succeeded,      \* _score_all_pets
    pending,            \* _score_all_pets: batches whose future is not yet consumed
    in_flight,          \* _score_all_pets: batches a worker is running
    completed,          \* _score_all_pets: futures finished, not yet consumed
    future_result,      \* _score_all_pets: batch -> what its future returned
    score_ret,          \* what the last _score_all_pets call returned
    ranked_indices,
    explanations,       \* _explain_top_pets: dict list position -> text
    explain_pending,    \* _explain_top_pets: futures not yet consumed
    explain_in_flight,  \* _explain_top_pets: tasks a worker is running
    explain_log,        \* history: pet id -> explanation calls issued for it
    batch_call,         \* _score_batch: batch size and the endpoint's reply
    batch_ret,          \* _score_batch: what the call returned
    retry_cfg,          \* retry_with_backoff: max_retries, base_delay, backoff_factor
    retry_attempt,      \* retry_with_backoff: the loop variable
    retry_delay,        \* retry_with_backoff: the next sleep
    retry_last_err,     \* retry_with_backoff: last_err
    retry_calls,        \* history: what each call of the wrapped function did
    retry_sleeps,       \* history: the arguments of time.sleep, in order
    retry_result,       \* what the wrapper returned or raised
    extract_text,       \* _extract_json: its argument
    extract_ret,        \* _extract_json: what it returned or raised
    jobs,               \* table crawl_jobs: job id -> status
    returned_job,       \* start_ingestion: the job_id of its response
    pipeline_job,       \* run_ingestion_pipeline: its job_id
    polled,             \* get_ingestion_status: the last status it returned
    conversations,      \* pet_qa._conversations: session id -> messages
    qa_log,             \* history: per session, the messages of the
                        \* successful asks since its last clear
    qa_bad,             \* history: replies without a text so far
    qa_result,          \* the "error" entry of the last ask's result
    response,           \* the MatchResponse returned, or None
    raised,             \* an exception left match_pets
    session_closed,     \* number of session.close() calls
    search_calls,       \* number of vector_search calls
    score_calls,        \* number of batch-scoring endpoint calls
    explain_calls,      \* number of explanation endpoint calls
    attempts,           \* retry_with_backoff: batch -> calls of _score_batch made
    pool_hist,          \* history: pool index -> the round that scored it and
                        \* whether its batch returned scores
    pet_pair,           \* _pet_fallback_reasoning: the two pets it is called on
    fallback_texts      \* _pet_fallback_reasoning: what it returned for each

vars == <<entry, pc, db, query, pet_objects, similarity_scores,
          relevance_scores, llm_scored, best_score, agent_round, new_pairs,
          pets, scores, llm_succeeded, pending, future_result, score_ret,
          ranked_indices, explanations, explain_pending, response, raised,
          session_closed, search_calls, score_calls, explain_calls,
          attempts, pool_hist, pet_pair, fallback_texts, in_flight,
          completed, explain_in_flight, explain_log, batch_call, batch_ret,
          retry_cfg, retry_attempt, retry_delay, retry_last_err, retry_calls,
          retry_sleeps, retry_result, extract_text, extract_ret, jobs,
          returned_job, pipeline_job, polled, conversations, qa_log,
          qa_bad, qa_result>>

matchVars == <<pet_objects, similarity_scores, relevance_scores, llm_scored,
               best_score, agent_round, new_pairs, pool_hist>>
scorerVars == <<pets, scores, llm_succeeded, pending, future_result, attempts,
                in_flight, completed>>
batchVars == <<batch_call, batch_ret>>
\* the variables of the functions entered on their own
retryVars == <<retry_cfg, retry_attempt, retry_delay, retry_last_err,
               retry_calls, retry_sleeps, retry_result>>
extractVars == <<extract_text, extract_ret>>
jobVars == <<jobs, returned_job, pipeline_job, polled>>
qaVars == <<conversations, qa_log, qa_bad, qa_result>>
unitVars == <<batchVars, retryVars, extractVars, jobVars, qaVars>>
fbVars == <<pet_pair, fallback_texts, unitVars>>
explainVars == <<ranked_indices, explanations, explain_pending,
                 explain_in_flight, explain_log>>
exitVars == <<response, raised, session_closed>>
callVars == <<search_calls, score_calls, explain_calls>>

EmptyDict == [i \in {} |-> None]

\* the databases explored: every pet has a distinct id, the order is the
\* retriever's (similarity non-increasing)
Databases ==
    UNION {
        {[i \in 1..n |-> [id |-> i, species |-> sp[i], sim |-> sm[i]]] :
            sp \in [1..n -> SpeciesValues],
            sm \in {f \in [1..n -> SimValues] :
                        \A i \in 1..n - 1 : f[i] >= f[i + 1]}} :
        n \in 0..NumPets}

\* one database large enough for the second widening round to find pets
\* the first one did not
LargeDatabases ==
    {[i \in 1..LargeDbPets |->
        [id |-> i, species |-> "dog", sim |-> IF i <= 3 THEN 90 ELSE 20]]}

Queries ==
    [max_results : 1..MaxResultsBound, species_filter : {NoFilter, "dog"}]

\* ------------------------------------------------------------ _extract_json
\* a text is a sequence of tokens: the characters { } [ ], the number 0,
\* "s" for the string literal "[{" (quotes included), "f" for a fence
\* marker of three backquotes and " " for a whitespace character
ExtractAlphabet == {"{", "}", "[", "]", "0", "s", "f", Whitespace}
JsonTexts == UNION {[1..n -> ExtractAlphabet] : n \in 0..MaxTextLen}

\* a JSON value over these tokens, whitespace removed
RECURSIVE ValidValue(_)
ValidValue(u) ==
    \/ u \in {<<"0">>, <<"s">>, <<"{", "}">>, <<"[", "]">>}
    \/ /\ Len(u) >= 3
       /\ u[1] = "["
       /\ u[Len(u)] = "]"
       /\ ValidValue(SubSeq(u, 2, Len(u) - 1))

\* json.loads: the value (written without whitespace), or ok = FALSE for
\* JSONDecodeError
JsonLoads(t) ==
    LET u == SelectSeq(t, LAMBDA c : c # Whitespace)
    IN IF ValidValue(u) THEN [ok |-> TRUE, value |-> u]
       ELSE [ok |-> FALSE, value |-> <<>>]

\* lines 82-83: every fence marker goes with the whitespace behind it
RECURSIVE RemoveFences(_)
RemoveFences(t) ==
    IF t = <<>> THEN <<>>
    ELSE IF Head(t) = "f" THEN RemoveFences(LStrip(Tail(t)))
    ELSE <<Head(t)>> \o RemoveFences(Tail(t))

NoMatch == [found |-> FALSE, partial |-> FALSE, tokens |-> <<>>]

\* re.search of open [^ open close]* close: the leftmost `open` character
\* whose next open or close character is `close`; "s" holds an open
\* character of both kinds, and a match that starts there starts inside
\* the string literal (partial)
ShortestMatch(t, open, close) ==
    LET starts == {i \in 1..Len(t) :
                    /\ t[i] \in {open, "s"}
                    /\ \E j \in i + 1..Len(t) :
                        /\ t[j] = close
                        /\ \A m \in i + 1..j - 1 : t[m] \notin {open, close, "s"}}
    IN IF starts = {} THEN NoMatch
       ELSE LET i == CHOOSE x \in starts : \A y \in starts : x <= y
                j == CHOOSE x \in i + 1..Len(t) :
                        t[x] = close /\ \A m \in i + 1..x - 1 : t[m] # close
            IN [found |-> TRUE, partial |-> t[i] = "s", tokens |-> SubSeq(t, i, j)]

\* re.search of open .*? close with DOTALL: from the first `open`
\* character to the first `close` after it
LazyMatch(t, open, close) ==
    LET opens == {i \in 1..Len(t) : t[i] \in {open, "s"}}
    IN IF opens = {} THEN NoMatch
       ELSE LET i == CHOOSE x \in opens : \A y \in opens : x <= y
                closes == {x \in i + 1..Len(t) : t[x] = close}
            IN IF closes = {} THEN NoMatch
               ELSE LET j == CHOOSE x \in closes : \A y \in closes : x <= y
                    IN [found |-> TRUE, partial |-> t[i] = "s",
                        tokens |-> SubSeq(t, i, j)]

\* line 97: json.loads of match.group()
LoadsMatch(mt) ==
    IF mt.found /\ ~mt.partial THEN JsonLoads(mt.tokens)
    ELSE [ok |-> FALSE, value |-> <<>>]

\* the array patterns tried before the object patterns
PatternMatchesArrayFirst(text) ==
    <<ShortestMatch(text, "[", "]"), ShortestMatch(text, "{", "}"),
      LazyMatch(text, "[", "]"), LazyMatch(text, "{", "}")>>

\* line 93: the matches of the four patterns, in the order of the tuple
PatternMatches(text) ==
    <<ShortestMatch(text, "{", "}"), ShortestMatch(text, "[", "]"),
      LazyMatch(text, "{", "}"), LazyMatch(text, "[", "]")>>

RECURSIVE FirstLoaded(_, _)
\* lines 93-99: the value of the first match, from the k-th on, that parses
FirstLoaded(ms, k) ==
    IF k > Len(ms) THEN [kind |-> "raise", value |-> "ValueError"]
    ELSE IF LoadsMatch(ms[k]).ok
         THEN [kind |-> "return", value |-> LoadsMatch(ms[k]).value]
         ELSE FirstLoaded(ms, k + 1)

\* lines 76-101
ExtractJson(text) ==
    LET direct == JsonLoads(Strip(text))
        fenced == JsonLoads(Strip(RemoveFences(text)))
    IN IF direct.ok THEN [kind |-> "return", value |-> direct.value]
       ELSE IF fenced.ok THEN [kind |-> "return", value |-> fenced.value]
       ELSE FirstLoaded(PatternMatches(text), 1)

IdleBatch == batch_call = None /\ batch_ret = None
IdleRetry ==
    /\ retry_cfg = None
    /\ retry_attempt = 0
    /\ retry_delay = 0
    /\ retry_last_err = None
    /\ retry_calls = <<>>
    /\ retry_sleeps = <<>>
    /\ retry_result = None
IdleExtract == extract_text = <<>> /\ extract_ret = None
NoJob == 0                          \* no job id assigned yet
NotPolled == "<not polled>"
IdleJobs ==
    /\ jobs = EmptyDict
    /\ returned_job = NoJob
    /\ pipeline_job = NoJob
    /\ polled = NotPolled
\* ------------------------------------------------------------------ pet_qa
MAX_HISTORY_TURNS == 20
SessionIds == {"s", "t"}
NoSession == "<None>"               \* session_id = None
\* session ids that `if session_id:` takes for none
Falsy == {NoSession, ""}
NullContent == 0                    \* the content null of a reply

\* pet_qa.py line 162, and nothing asked yet
IdleQa ==
    /\ conversations = EmptyDict
    /\ qa_log = [s \in SessionIds |-> <<>>]
    /\ qa_bad = 0
    /\ qa_result = ""
IdleUnits == IdleBatch /\ IdleRetry /\ IdleExtract /\ IdleJobs /\ IdleQa

\* the state of match_pets and its helpers before anything ran
InitMatcherVars ==
    /\ pet_objects = <<>>
    /\ similarity_scores = EmptyDict
    /\ relevance_scores = EmptyDict
    /\ llm_scored = FALSE
    /\ best_score = <<0, 1>>
    /\ agent_round = 0
    /\ new_pairs = <<>>
    /\ scores = EmptyDict
    /\ llm_succeeded = FALSE
    /\ future_result = EmptyDict
    /\ score_ret = None
    /\ ranked_indices = <<>>
    /\ explanations = EmptyDict
    /\ explain_pending = {}
    /\ explain_in_flight = {}
    /\ explain_log = EmptyDict
    /\ in_flight = {}
    /\ completed = {}
    /\ response = NoResponse
    /\ raised = FALSE
    /\ session_closed = 0
    /\ search_calls = 0
    /\ score_calls = 0
    /\ explain_calls = 0
    /\ pool_hist = EmptyDict

InitCommon == InitMatcherVars /\ IdleUnits

\* a call of match_pets(query) on a database
InitMatch ==
    /\ entry = "match_pets"
    /\ pc = "embed"
    /\ db \in Databases \cup LargeDatabases
    /\ query \in Queries
    \* the large database is searched for one result
    /\ db \in LargeDatabases => query.max_results = 1
    \* species is read by the species filter only
    /\ query.species_filter = NoFilter =>
            \A i \in 1..Len(db) : db[i].species = "dog"
    /\ pets = <<>>
    /\ pending = {}
    /\ attempts = EmptyDict
    /\ pet_pair = <<>>
    /\ fallback_texts = <<>>
    /\ InitCommon

\* a call of _score_all_pets on a list of n pets
InitScore ==
    /\ entry = "_score_all_pets"
    /\ pc = "score"
    /\ db = <<>>
    /\ query = [max_results |-> 1, species_filter |-> NoFilter]
    /\ \E n \in 0..MaxDirectPets :
        /\ pets = [i \in 1..n |-> i]
        /\ pending = 1..NumBatches(n)
        /\ attempts = [b \in 1..NumBatches(n) |-> 0]
    /\ pet_pair = <<>>
    /\ fallback_texts = <<>>
    /\ InitCommon

\* the pets _pet_fallback_reasoning is called on: the attributes it reads
\* and one (sex) it does not; "" stands for a column left empty
FallbackPets ==
    {[name |-> nm, breed |-> "Beagle", energy_level |-> en, size |-> "small",
      first_sentence |-> ps[1], first_len |-> ps[2],
      good_with_children |-> gc, good_with_dogs |-> FALSE,
      good_with_cats |-> FALSE, sex |-> sx] :
        nm \in {"Rex", "Milo"}, en \in {"high", "unknown", ""},
        ps \in {<<"", 0>>, <<"Shy", 3>>, <<"Loves long walks", 16>>},
        gc \in BOOLEAN, sx \in {"male", "female"}}

\* two calls of _pet_fallback_reasoning, on any two pets
InitFallback ==
    /\ entry = "_pet_fallback_reasoning"
    /\ pc = "fallback"
    /\ db = <<>>
    /\ query = [max_results |-> 1, species_filter |-> NoFilter]
    /\ pets = <<>>
    /\ pending = {}
    /\ attempts = EmptyDict
    /\ pet_pair \in FallbackPets \X FallbackPets
    /\ fallback_texts = <<>>
    /\ InitCommon

\* match_pets and its helpers not entered
MatcherIdle ==
    /\ db = <<>>
    /\ query = [max_results |-> 1, species_filter |-> NoFilter]
    /\ pets = <<>>
    /\ pending = {}
    /\ attempts = EmptyDict
    /\ pet_pair = <<>>
    /\ fallback_texts = <<>>
    /\ InitMatcherVars

\* one call of the body of _score_batch on a batch of n pets, the endpoint
\* replying with `reply`
InitBatch ==
    /\ entry = "_score_batch"
    /\ pc = "call"
    /\ MatcherIdle
    /\ batch_call \in [n : 1..BATCH_SIZE,
                       reply : BatchOutcomes(DirectRawScoreValues)]
    /\ batch_ret = None
    /\ IdleRetry
    /\ IdleExtract
    /\ IdleJobs
    /\ IdleQa

\* a function wrapped by retry_with_backoff(max_retries, base_delay,
\* backoff_factor) is called; line 111: delay = base_delay
InitRetry ==
    /\ entry = "retry_with_backoff"
    /\ pc = "retry"
    /\ MatcherIdle
    /\ IdleBatch
    /\ IdleExtract
    /\ IdleJobs
    /\ IdleQa
    /\ retry_cfg \in [max_retries : 0..MaxRetriesArg,
                      base_delay : {1, 3}, backoff_factor : {2, 3}]
    /\ retry_attempt = 0
    /\ retry_delay = retry_cfg.base_delay
    /\ retry_last_err = None
    /\ retry_calls = <<>>
    /\ retry_sleeps = <<>>
    /\ retry_result = None

\* one call of _extract_json(text)
InitExtract ==
    /\ entry = "_extract_json"
    /\ pc = "extract"
    /\ MatcherIdle
    /\ IdleBatch
    /\ IdleRetry
    /\ IdleJobs
    /\ IdleQa
    /\ extract_text \in JsonTexts
    /\ extract_ret = None

\* a POST /ingest request arrives; the table holds the jobs of earlier
\* requests
InitIngest ==
    /\ entry = "start_ingestion"
    /\ pc = "ingest"
    /\ MatcherIdle
    /\ IdleBatch
    /\ IdleRetry
    /\ IdleExtract
    /\ \E n \in 0..MaxOldJobs :
            jobs \in [1..n -> {"pending", "running", "completed", "failed"}]
    /\ returned_job = NoJob
    /\ pipeline_job = NoJob
    /\ polled = NotPolled
    /\ IdleQa

\* the module pet_qa imported, before any request
InitQa ==
    /\ entry = "ask_agent"
    /\ pc = "qa"
    /\ MatcherIdle
    /\ IdleBatch
    /\ IdleRetry
    /\ IdleExtract
    /\ IdleJobs
    /\ IdleQa

Init ==
    \/ InitMatch \/ InitScore \/ InitFallback \/ InitBatch \/ InitRetry
    \/ InitIngest

\* ------------------------------------------------- _pet_fallback_reasoning
FallbackCall ==
    /\ pc = "fallback"
    /\ fallback_texts' =
            [i \in 1..Len(pet_pair) |-> PetFallbackReasoning(pet_pair[i])]
    /\ pc' = "done"
    /\ UNCHANGED <<pet_pair, unitVars, entry, db, query, matchVars,
                   scorerVars, score_ret, explainVars, exitVars, callVars>>

\* the variables of match_pets and its helpers
matcherVars == <<pet_pair, fallback_texts, db, query, matchVars, scorerVars,
                 score_ret, explainVars, exitVars, callVars>>

\* ----------------------------------------------------------- _score_batch
\* lines 271-301: the body of _score_batch on the reply
ScoreBatchCall ==
    /\ entry = "_score_batch"
    /\ pc = "call"
    /\ batch_ret' = ScoreBatchBody(batch_call.reply, batch_call.n)
    /\ pc' = "done"
    /\ UNCHANGED <<batch_call, retryVars, extractVars, jobVars, entry,
                   matcherVars, qaVars>>

\* ------------------------------------------------------ retry_with_backoff
\* what a call of the wrapped function does: return, or raise one of the
\* caught exceptions or another one
CallOutcomes == {"", "TimeoutException", "ConnectError", "ValueError", "KeyError"}

\* lines 112-122: one pass of the loop, with the raise after the loop when
\* it was the last
RetryCall ==
    /\ entry = "retry_with_backoff"
    /\ pc = "retry"
    /\ \E exc \in CallOutcomes :
        LET step == RetryStep(exc, retry_attempt, retry_cfg.max_retries)
            \* the call's value or exception, tagged with the call's number
            this == <<exc, Len(retry_calls) + 1>>
        IN /\ retry_calls' = Append(retry_calls, exc)
           /\ retry_last_err' =
                IF exc \in RetryableErrors THEN this ELSE retry_last_err
           /\ IF step = "retry"
              THEN /\ retry_sleeps' = Append(retry_sleeps, retry_delay)
                   /\ retry_delay' = retry_delay * retry_cfg.backoff_factor
                   /\ retry_attempt' = retry_attempt + 1
                   /\ UNCHANGED <<retry_result, pc>>
              ELSE /\ retry_result' =
                        IF step = "return" THEN [kind |-> "return", value |-> this]
                        ELSE IF exc \in RetryableErrors
                        THEN [kind |-> "raise", value |-> retry_last_err']
                        ELSE [kind |-> "raise", value |-> this]
                   /\ pc' = "done"
                   /\ UNCHANGED <<retry_sleeps, retry_delay, retry_attempt>>
    /\ UNCHANGED <<retry_cfg, batchVars, extractVars, jobVars, entry,
                   matcherVars, qaVars>>

\* ------------------------------------------------------------- ingestion
\* uuid.uuid4(): an id no job has
FreshJobId == Cardinality(DOMAIN jobs) + 1

\* main.py lines 129-148: POST /ingest stores a pending job, schedules the
\* background task and answers with the job's id
StartIngestion ==
    /\ entry = "start_ingestion"
    /\ pc = "ingest"
    /\ jobs' = (FreshJobId :> "pending") @@ jobs
    /\ returned_job' = FreshJobId
    /\ pc' = "background"
    /\ UNCHANGED <<pipeline_job, polled, batchVars, retryVars, extractVars,
                   entry, matcherVars, qaVars>>

\* pipeline.py lines 47-63, called from main.py line 138 with the shelter
\* and the crawl limits: the pipeline stores a running job of its own
PipelineCreateJob ==
    /\ entry = "start_ingestion"
    /\ pc = "background"
    /\ jobs' = (FreshJobId :> "running") @@ jobs
    /\ pipeline_job' = FreshJobId
    /\ pc' = "pipeline"
    /\ UNCHANGED <<returned_job, polled, batchVars, retryVars, extractVars,
                   entry, matcherVars, qaVars>>

\* pipeline.py lines 47-62 raise (the database is unreachable): the
\* exception leaves the pipeline and main.py lines 142-143 log it
PipelineSetupFails ==
    /\ entry = "start_ingestion"
    /\ pc = "background"
    /\ pc' = "done"
    /\ UNCHANGED <<jobVars, batchVars, retryVars, extractVars, entry,
                   matcherVars, qaVars>>

\* pipeline.py lines 68-174: the crawl, extraction and storage end with
\* job_status completed or failed, and the final update of the pipeline's
\* job is committed or fails and is logged
PipelineFinish ==
    /\ entry = "start_ingestion"
    /\ pc = "pipeline"
    /\ \E job_status \in {"completed", "failed"}, update_ok \in BOOLEAN :
            jobs' = IF update_ok
                    THEN [jobs EXCEPT ![pipeline_job] = job_status]
                    ELSE jobs
    /\ pc' = "done"
    /\ UNCHANGED <<returned_job, pipeline_job, polled, batchVars, retryVars,
                   extractVars, entry, matcherVars, qaVars>>

\* main.py lines 151-166: GET /ingest/{job_id} with the id POST /ingest
\* returned
GetIngestionStatus ==
    /\ entry = "start_ingestion"
    /\ returned_job # NoJob
    /\ polled' = jobs[returned_job]
    /\ polled' # polled
    /\ UNCHANGED <<jobs, returned_job, pipeline_job, pc, batchVars, retryVars,
                   extractVars, entry, matcherVars, qaVars>>

\* ------------------------------------------------------- _score_all_pets
\* the pool's work queue is first in, first out: the next batch a free
\* worker takes
NextQueued(waiting) == CHOOSE b \in waiting : \A c \in waiting : b <= c

\* lines 321-325: a worker of ThreadPoolExecutor(max_workers=MAX_WORKERS)
\* takes the next submitted batch and calls _score_batch
ScoreBatchStart ==
    /\ pc = "score"
    /\ pending \ (in_flight \cup completed) # {}
    /\ Cardinality(in_flight) < MAX_WORKERS
    /\ in_flight' =
            in_flight \cup {NextQueued(pending \ (in_flight \cup completed))}
    /\ UNCHANGED <<fbVars, entry, pc, db, query, matchVars, pets, scores,
                   llm_succeeded, pending, future_result, attempts, completed,
                   score_ret, explainVars, exitVars, callVars>>

\* one call of the endpoint for batch b comes back (o is what it did): the
\* wrapped _score_batch returns or is called again, and the future finishes
ScoreBatchReturn ==
    /\ pc = "score"
    /\ \E b \in in_flight,
          o \in BatchOutcomes(IF entry = "_score_all_pets"
                              THEN DirectRawScoreValues ELSE RawScoreValues) :
        LET idxs == BatchIndices(Len(pets), b)
            r == ScoreBatchBody(o, Len(idxs))
            step == WrapperStep(r, attempts[b])
            \* lines 328-332: an exception of the future counts as None
            batch_scores ==
                IF step = "raise"
                THEN [exc |-> "", ok |-> FALSE, scores |-> <<>>] ELSE r
        IN /\ attempts' = [attempts EXCEPT ![b] = @ + 1]
           /\ IF step = "retry"
              THEN UNCHANGED <<future_result, in_flight, completed>>
              ELSE /\ future_result' = (b :> batch_scores) @@ future_result
                   /\ in_flight' = in_flight \ {b}
                   /\ completed' = completed \cup {b}
    /\ score_calls' = score_calls + 1
    /\ UNCHANGED <<fbVars, entry, pc, db, query, matchVars, pets, scores,
                   llm_succeeded, pending, score_ret, explainVars, exitVars,
                   search_calls, explain_calls>>

\* lines 326-341: as_completed yields the finished future of batch b and
\* its result is recorded
ScoreBatchDone ==
    /\ pc = "score"
    /\ \E b \in completed :
        LET idxs == BatchIndices(Len(pets), b)
            batch_scores == future_result[b]
        IN /\ scores' = RecordBatch(scores, idxs, batch_scores)
           /\ llm_succeeded' = (llm_succeeded \/ batch_scores.ok)
           /\ pending' = pending \ {b}
           /\ completed' = completed \ {b}
    /\ UNCHANGED <<fbVars, entry, pc, db, query, matchVars, pets,
                   future_result, attempts, in_flight, score_ret, explainVars,
                   exitVars, callVars>>

\* the flag of the last round alone
MergeRoundLastFlag(ret) ==
    LET offset == Len(pet_objects)
    IN /\ llm_scored' = ret[2]
       /\ pet_objects' = pet_objects \o [i \in 1..Len(new_pairs) |-> new_pairs[i].pet]
       /\ similarity_scores' =
            [k \in {offset + i : i \in 0..Len(new_pairs) - 1} |->
                new_pairs[k - offset + 1].score] @@ similarity_scores
       /\ relevance_scores' =
            [k \in {offset + i : i \in DOMAIN ret[1]} |-> ret[1][k - offset]]
            @@ relevance_scores
       /\ best_score' = DictMax(relevance_scores', <<0, 1>>)
       /\ pool_hist' =
            [k \in {offset + i : i \in 0..Len(pets) - 1} |->
                [round |-> agent_round,
                 ok |-> future_result[BatchOf(k - offset)].ok]] @@ pool_hist

\* the new entries written from index 0
MergeRoundNoOffset(ret) ==
    LET offset == 0
    IN /\ llm_scored' = (llm_scored \/ ret[2])
       /\ pet_objects' = pet_objects \o [i \in 1..Len(new_pairs) |-> new_pairs[i].pet]
       /\ similarity_scores' =
            [k \in {offset + i : i \in 0..Len(new_pairs) - 1} |->
                new_pairs[k - offset + 1].score] @@ similarity_scores
       /\ relevance_scores' =
            [k \in {offset + i : i \in DOMAIN ret[1]} |-> ret[1][k - offset]]
            @@ relevance_scores
       /\ best_score' = DictMax(relevance_scores', <<0, 1>>)
       /\ pool_hist' =
            [k \in {offset + i : i \in 0..Len(pets) - 1} |->
                [round |-> agent_round,
                 ok |-> future_result[BatchOf(k - offset)].ok]] @@ pool_hist

\* lines 507-517: merge the scores of a widening round into the pool
MergeRound(ret) ==
    LET offset == Len(pet_objects)
    IN /\ llm_scored' = (llm_scored \/ ret[2])
       /\ pet_objects' = pet_objects \o [i \in 1..Len(new_pairs) |-> new_pairs[i].pet]
       /\ similarity_scores' =
            [k \in {offset + i : i \in 0..Len(new_pairs) - 1} |->
                new_pairs[k - offset + 1].score] @@ similarity_scores
       /\ relevance_scores' =
            [k \in {offset + i : i \in DOMAIN ret[1]} |-> ret[1][k - offset]]
            @@ relevance_scores
       /\ best_score' = DictMax(relevance_scores', <<0, 1>>)
       /\ pool_hist' =
            [k \in {offset + i : i \in 0..Len(pets) - 1} |->
                [round |-> agent_round,
                 ok |-> future_result[BatchOf(k - offset)].ok]] @@ pool_hist

\* lines 343-352: every future consumed; fill the fallback and return to
\* the caller (match_pets lines 482-485, or lines 510-517 in a round)
ScoreFinish ==
    /\ pc = "score"
    /\ pending = {}
    /\ LET ret == <<FillFallback(scores), llm_succeeded>>
       IN /\ score_ret' = ret
          /\ IF entry = "_score_all_pets"
             THEN /\ pc' = "done"
                  /\ UNCHANGED matchVars
             ELSE IF agent_round = 0
             THEN /\ pc' = "loop"
                  /\ relevance_scores' = ret[1]
                  /\ llm_scored' = ret[2]
                  /\ best_score' = DictMax(ret[1], <<0, 1>>)
                  /\ pool_hist' =
                        [i \in 0..Len(pets) - 1 |->
                            [round |-> 0, ok |-> future_result[BatchOf(i)].ok]]
                  /\ UNCHANGED <<pet_objects, similarity_scores, agent_round,
                                 new_pairs>>
             ELSE /\ pc' = "loop"
                  /\ MergeRound(ret)
                  /\ UNCHANGED <<agent_round, new_pairs>>
    /\ UNCHANGED <<fbVars, entry, db, query, scorerVars, explainVars, exitVars,
                   callVars>>

\* _score_all_pets lines 312-319 on entry: nothing scored yet
StartScoring(pet_list) ==
    /\ pets' = pet_list
    /\ scores' = EmptyDict
    /\ llm_succeeded' = FALSE
    /\ pending' = 1..NumBatches(Len(pet_list))
    /\ future_result' = EmptyDict
    /\ attempts' = [b \in 1..NumBatches(Len(pet_list)) |-> 0]
    /\ in_flight' = {}
    /\ completed' = {}
    /\ score_ret' = None


\* ------------------------------------------------------------- match_pets
\* the session left open
CloseSessionNever == session_closed' = session_closed

\* the finally clause, lines 581-582
CloseSession == session_closed' = session_closed + 1

\* the exception swallowed and an empty response returned
RaiseSwallowed ==
    /\ pc' = "done"
    /\ raised' = raised
    /\ response' = [kind |-> "MatchResponse", results |-> <<>>,
                    reasoning_summary |-> ""]
    /\ CloseSession

\* an exception leaves match_pets through the finally clause
Raise ==
    /\ pc' = "raised"
    /\ raised' = TRUE
    /\ response' = response
    /\ CloseSession

\* line 458
Embed ==
    /\ pc = "embed"
    /\ pc' = "search"
    /\ UNCHANGED <<fbVars, entry, db, query, matchVars, scorerVars, score_ret,
                   explainVars, exitVars, callVars>>

EmbedFails ==
    /\ pc = "embed"
    /\ Raise
    /\ UNCHANGED <<fbVars, entry, db, query, matchVars, scorerVars, score_ret,
                   explainVars, callVars>>

NullSummary == "<None>"            \* reasoning_summary = None

\* the early return without a summary (the field's default)
NoCandidatesResponseNull ==
    [kind |-> "MatchResponse", results |-> <<>>,
     reasoning_summary |-> NullSummary]

\* lines 468-473
NoCandidatesResponse ==
    [kind |-> "MatchResponse",
     results |-> <<>>,
     reasoning_summary |->
        "No pets found matching your criteria. Try broadening your search."]

\* lines 461-482: the initial vector search, the early return, or the
\* start of the first scoring pass
InitialSearch ==
    /\ pc = "search"
    /\ search_calls' = search_calls + 1
    /\ LET candidates == VectorSearch(db, query.max_results * 3,
                                      query.species_filter)
       IN IF candidates = <<>>
          THEN /\ response' = NoCandidatesResponse
               /\ pc' = "done"
               /\ CloseSession
               /\ UNCHANGED <<raised, pet_objects, similarity_scores,
                              scorerVars, score_ret>>
          ELSE /\ pet_objects' = [i \in 1..Len(candidates) |-> candidates[i].pet]
               /\ similarity_scores' =
                    [i \in 0..Len(candidates) - 1 |-> candidates[i + 1].score]
               /\ StartScoring(pet_objects')
               /\ pc' = "score"
               /\ UNCHANGED exitVars
    /\ UNCHANGED <<fbVars, entry, db, query, relevance_scores, llm_scored,
                   best_score, agent_round, new_pairs, pool_hist, explainVars,
                   score_calls, explain_calls>>

SearchFails ==
    /\ pc = "search"
    /\ search_calls' = search_calls + 1
    /\ Raise
    /\ UNCHANGED <<fbVars, entry, db, query, matchVars, scorerVars, score_ret,
                   explainVars, score_calls, explain_calls>>

\* the round counter not consulted
WidenStartUnbounded ==
    /\ pc = "loop"
    /\ RLt(best_score, LOW_CONFIDENCE_THRESHOLD)
    /\ agent_round' = agent_round + 1
    /\ pc' = "widen_embed"
    /\ UNCHANGED <<fbVars, entry, db, query, pet_objects, similarity_scores,
                   relevance_scores, llm_scored, best_score, new_pairs,
                   pool_hist, scorerVars, score_ret, explainVars, exitVars,
                   callVars>>

\* line 488, condition true; line 489
WidenStart ==
    /\ pc = "loop"
    /\ RLt(best_score, LOW_CONFIDENCE_THRESHOLD)
    /\ agent_round < MAX_AGENT_ROUNDS
    /\ agent_round' = agent_round + 1
    /\ pc' = "widen_embed"
    /\ UNCHANGED <<fbVars, entry, db, query, pet_objects, similarity_scores,
                   relevance_scores, llm_scored, best_score, new_pairs,
                   pool_hist, scorerVars, score_ret, explainVars, exitVars,
                   callVars>>

\* line 488, condition false
LoopExit ==
    /\ pc = "loop"
    /\ ~(RLt(best_score, LOW_CONFIDENCE_THRESHOLD)
         /\ agent_round < MAX_AGENT_ROUNDS)
    /\ pc' = "rank"
    /\ UNCHANGED <<fbVars, entry, db, query, matchVars, scorerVars, score_ret,
                   explainVars, exitVars, callVars>>

\* _agent_widen_search, line 430
WidenEmbed ==
    /\ pc = "widen_embed"
    /\ pc' = "widen_search"
    /\ UNCHANGED <<fbVars, entry, db, query, matchVars, scorerVars, score_ret,
                   explainVars, exitVars, callVars>>

WidenEmbedFails ==
    /\ pc = "widen_embed"
    /\ Raise
    /\ UNCHANGED <<fbVars, entry, db, query, matchVars, scorerVars, score_ret,
                   explainVars, callVars>>

RECURSIVE Pow2(_)
Pow2(n) == IF n = 0 THEN 1 ELSE 2 * Pow2(n - 1)

\* _agent_widen_search lines 420-436
AgentWidenSearch(database, q, round_num) ==
    VectorSearch(database, q.max_results * 4 * Pow2(round_num), NoFilter)

\* every new candidate kept
DeduplicateNone(pool, new_candidates) == new_candidates

\* lines 502-503
Deduplicate(pool, new_candidates) ==
    LET existing_ids == {pool[i] : i \in 1..Len(pool)}
    IN SelectSeq(new_candidates, LAMBDA c : c.pet \notin existing_ids)

\* lines 495-510: the widening search, the two breaks, or the start of the
\* scoring pass of the round
WidenSearch ==
    /\ pc = "widen_search"
    /\ search_calls' = search_calls + 1
    /\ LET new_candidates == AgentWidenSearch(db, query, agent_round)
           pairs == Deduplicate(pet_objects, new_candidates)
       IN IF new_candidates = <<>> \/ pairs = <<>>
          THEN /\ pc' = "rank"
               /\ UNCHANGED <<new_pairs, scorerVars, score_ret>>
          ELSE /\ new_pairs' = pairs
               /\ StartScoring([i \in 1..Len(pairs) |-> pairs[i].pet])
               /\ pc' = "score"
    /\ UNCHANGED <<fbVars, entry, db, query, pet_objects, similarity_scores,
                   relevance_scores, llm_scored, best_score, agent_round,
                   pool_hist, explainVars, exitVars, score_calls,
                   explain_calls>>

WidenSearchFails ==
    /\ pc = "widen_search"
    /\ search_calls' = search_calls + 1
    /\ Raise
    /\ UNCHANGED <<fbVars, entry, db, query, matchVars, scorerVars, score_ret,
                   explainVars, score_calls, explain_calls>>

\* the ranking not truncated
RankedIndicesAll(pool, rel, max_results) ==
    SortedDesc(0..Len(pool) - 1, rel)

\* lines 521-525
RankedIndices(pool, rel, max_results) ==
    Prefix(SortedDesc(0..Len(pool) - 1, rel), max_results)

\* lines 521-537 and 383-390: rank, select, submit one explanation task
\* per selected pet
Rank ==
    /\ pc = "rank"
    /\ ranked_indices' =
            RankedIndices(pet_objects, relevance_scores, query.max_results)
    /\ explanations' = EmptyDict
    /\ explain_pending' = 0..Len(ranked_indices') - 1
    /\ explain_in_flight' = {}
    /\ explain_log' = EmptyDict
    /\ pc' = "explain"
    /\ UNCHANGED <<fbVars, entry, db, query, matchVars, scorerVars, score_ret,
                   exitVars, callVars>>

\* line 386: the size of the explanation pool
ExplainWorkers(n) ==
    LET most == IF MAX_WORKERS > 2 THEN MAX_WORKERS ELSE 2
    IN IF n < most THEN n ELSE most

\* the request made for the pet at pool position i, not for the pet ranked
\* at list position i
ExplainStartPoolOrder ==
    /\ pc = "explain"
    /\ explain_pending \ explain_in_flight # {}
    /\ Cardinality(explain_in_flight) < ExplainWorkers(Len(ranked_indices))
    /\ LET i == NextQueued(explain_pending \ explain_in_flight)
           pet == pet_objects[i + 1]
       IN /\ explain_in_flight' = explain_in_flight \cup {i}
          /\ explain_log' = (pet :> Get(explain_log, pet, 0) + 1) @@ explain_log
    /\ UNCHANGED <<fbVars, entry, pc, db, query, matchVars, scorerVars,
                   score_ret, ranked_indices, explanations, explain_pending,
                   exitVars, callVars>>

\* lines 386-390 and 357-363: a worker of the explanation pool takes the
\* next submitted task and _explain_one posts its one request
ExplainStart ==
    /\ pc = "explain"
    /\ explain_pending \ explain_in_flight # {}
    /\ Cardinality(explain_in_flight) < ExplainWorkers(Len(ranked_indices))
    /\ LET i == NextQueued(explain_pending \ explain_in_flight)
           pet == pet_objects[ranked_indices[i + 1] + 1]
       IN /\ explain_in_flight' = explain_in_flight \cup {i}
          /\ explain_log' = (pet :> Get(explain_log, pet, 0) + 1) @@ explain_log
    /\ UNCHANGED <<fbVars, entry, pc, db, query, matchVars, scorerVars,
                   score_ret, ranked_indices, explanations, explain_pending,
                   exitVars, callVars>>

\* a failed explanation call caught neither by _explain_one nor around
\* future.result()
ExplainDoneUncaught ==
    /\ pc = "explain"
    /\ \E i \in explain_in_flight, o \in ExplainOutcomes :
        IF o.kind \in {"timeout", "connect", "http_error", "malformed",
                       "non_object"}
        THEN /\ Raise
             /\ UNCHANGED <<explanations, explain_pending, explain_in_flight>>
        ELSE /\ explanations' =
                (i :> ExplainOne(o, PetTable(pet_objects[ranked_indices[i + 1] + 1])))
                @@ explanations
             /\ explain_pending' = explain_pending \ {i}
             /\ explain_in_flight' = explain_in_flight \ {i}
             /\ UNCHANGED <<pc, exitVars>>
    /\ explain_calls' = explain_calls + 1
    /\ UNCHANGED <<fbVars, entry, db, query, matchVars, scorerVars, score_ret,
                   ranked_indices, explain_log, search_calls, score_calls>>

\* lines 364-374 and 391-397: the request of list position i comes back
\* (o is what it did) and its future is consumed
ExplainDone ==
    /\ pc = "explain"
    /\ \E i \in explain_in_flight, o \in ExplainOutcomes :
        /\ explanations' =
            (i :> ExplainOne(o, PetTable(pet_objects[ranked_indices[i + 1] + 1])))
            @@ explanations
        /\ explain_pending' = explain_pending \ {i}
        /\ explain_in_flight' = explain_in_flight \ {i}
    /\ explain_calls' = explain_calls + 1
    /\ UNCHANGED <<fbVars, entry, pc, db, query, matchVars, scorerVars, score_ret,
                   ranked_indices, explain_log, exitVars, search_calls,
                   score_calls>>

\* lines 399-402
FillExplanations(expl, top_pets) ==
    [i \in 0..Len(top_pets) - 1 |->
        IF i \in DOMAIN expl THEN expl[i]
        ELSE PetFallbackReasoning(PetTable(top_pets[i + 1]))]

\* lines 549-566
BuildResults(ranked, pool, rel, sim, scored, expl) ==
    [list_pos \in 1..Len(ranked) |->
        LET pet_idx == ranked[list_pos]
            pet == pool[pet_idx + 1]
            blended == Blend(LlmWeight(scored), VecWeight(scored),
                             Get(rel, pet_idx, NEUTRAL), Get(sim, pet_idx, 0))
            explanation_text == Get(expl, list_pos - 1,
                                    PetFallbackReasoning(PetTable(pet)))
        IN [pet |-> pet,
            similarity_score |-> blended,
            match_percentage |-> RoundHalfEven(blended, 100),
            explanation |-> explanation_text,
            reasoning |-> explanation_text]]

\* the summary without the scoring note
ReasoningSummaryNoNote(n, rounds, scored) ==
    "Found " \o ToString(n) \o " great match"
    \o (IF n # 1 THEN "es" ELSE "") \o " for your lifestyle"
    \o (IF rounds # 0
        THEN " (agent widened search " \o ToString(rounds) \o "x)" ELSE "")
    \o "."

\* lines 568-573
ReasoningSummary(n, rounds, scored) ==
    "Found " \o ToString(n) \o " great match"
    \o (IF n # 1 THEN "es" ELSE "") \o " for your lifestyle"
    \o (IF rounds # 0
        THEN " (agent widened search " \o ToString(rounds) \o "x)" ELSE "")
    \o "."
    \o (IF scored THEN "" ELSE " Scores based primarily on profile similarity.")

\* lines 399-404 and 543-582: collect the explanations, build the response
\* and return through the finally clause
BuildResponse ==
    /\ pc = "explain"
    /\ explain_pending = {}
    /\ LET top_pets == [i \in 1..Len(ranked_indices) |->
                            pet_objects[ranked_indices[i] + 1]]
           expl == FillExplanations(explanations, top_pets)
           results == BuildResults(ranked_indices, pet_objects,
                                   relevance_scores, similarity_scores,
                                   llm_scored, expl)
       IN /\ explanations' = expl
          /\ response' =
                [kind |-> "MatchResponse",
                 results |-> results,
                 reasoning_summary |->
                    ReasoningSummary(Len(results), agent_round, llm_scored)]
    /\ pc' = "done"
    /\ CloseSession
    /\ UNCHANGED <<fbVars, entry, db, query, matchVars, scorerVars, score_ret,
                   ranked_indices, explain_pending, explain_in_flight,
                   explain_log, raised, callVars>>

Next ==
    \/ ScoreBatchStart
    \/ ScoreBatchReturn
    \/ ScoreBatchDone
    \/ ScoreFinish
    \/ Embed
    \/ EmbedFails
    \/ InitialSearch
    \/ SearchFails
    \/ WidenStart
    \/ LoopExit
    \/ WidenEmbed
    \/ WidenEmbedFails
    \/ WidenSearch
    \/ WidenSearchFails
    \/ Rank
    \/ ExplainStart
    \/ ExplainDone
    \/ BuildResponse
    \/ FallbackCall
    \/ ScoreBatchCall
    \/ RetryCall
    \/ StartIngestion
    \/ PipelineCreateJob
    \/ PipelineSetupFails
    \/ PipelineFinish
    \/ GetIngestionStatus

Spec == Init /\ [][Next]_vars

\* ------------------------------------------------------------ _extract_json
ExtractCall ==
    /\ entry = "_extract_json"
    /\ pc = "extract"
    /\ extract_ret' = ExtractJson(extract_text)
    /\ pc' = "done"
    /\ UNCHANGED <<extract_text, batchVars, retryVars, jobVars, entry,
                   matcherVars, qaVars>>

NextExtract == ExtractCall

\* ------------------------------------------------------------------ pet_qa
\* lines 167-169
GetHistory(conv, session_id) ==
    IF session_id \in DOMAIN conv THEN conv[session_id] ELSE <<>>

\* the last n elements of a list (list[-n:])
LastN(l, n) == IF Len(l) <= n THEN l ELSE SubSeq(l, Len(l) - n + 1, Len(l))

\* lines 172-179
AppendHistory(conv, session_id, message) ==
    LET appended == Append(GetHistory(conv, session_id), message)
    IN (session_id :>
            (IF Len(appended) > MAX_HISTORY_TURNS * 2
             THEN LastN(appended, MAX_HISTORY_TURNS * 2) ELSE appended))
       @@ conv

\* what the chat endpoint does on one request: a reply with a text, a
\* connection failure, a timeout, an HTTP error status, a reply without
\* message.content, or a reply whose content is null
AskOutcomes ==
    {"ok", "connect", "timeout", "http_error", "no_content", "null_content"}

\* the "error" entry of the result ("" when there is none)
AskError(o) ==
    CASE o = "ok" -> ""
      [] o = "connect" -> "ollama_connection_failed"
      [] o = "timeout" -> "timeout"
      [] OTHER -> "unknown"

\* lines 189-296: one call of ask_agent; the question and the answer are
\* numbered with the session's successful asks since its last clear
AskAgent ==
    /\ entry = "ask_agent"
    /\ \E session_id \in SessionIds \cup Falsy, o \in AskOutcomes :
        LET k == IF session_id \in Falsy THEN 0
                 ELSE Len(qa_log[session_id]) \div 2 + 1
            user == <<"user", k>>
            \* line 242: answer = resp.json()["message"]["content"]
            answer == IF o = "null_content" THEN NullContent ELSE k
            assistant == <<"assistant", answer>>
            \* lines 245-247 are reached with any content; line 249,
            \* len(answer), raises on null after them
            saved == o \in {"ok", "null_content"} /\ session_id \notin Falsy
        IN /\ o = "null_content" => qa_bad < MaxBadReplies
           /\ saved => Len(qa_log[session_id]) < 2 * MaxAsks
           /\ qa_bad' = IF o = "null_content" THEN qa_bad + 1 ELSE qa_bad
           /\ conversations' =
                IF saved
                THEN AppendHistory(AppendHistory(conversations, session_id, user),
                                   session_id, assistant)
                ELSE conversations
           /\ qa_log' =
                IF o = "ok" /\ session_id \notin Falsy
                THEN [qa_log EXCEPT ![session_id] = @ \o <<user, assistant>>]
                ELSE qa_log
           /\ qa_result' = AskError(o)
    /\ UNCHANGED <<pc, batchVars, retryVars, extractVars, jobVars, entry,
                   matcherVars>>

\* lines 182-184
ClearHistory ==
    /\ entry = "ask_agent"
    /\ \E session_id \in SessionIds :
        /\ session_id \in DOMAIN conversations
        /\ conversations' =
                [s \in DOMAIN conversations \ {session_id} |-> conversations[s]]
        /\ qa_log' = [qa_log EXCEPT ![session_id] = <<>>]
    /\ UNCHANGED <<qa_bad, qa_result, pc, batchVars, retryVars,
                   extractVars, jobVars, entry, matcherVars>>

NextQa == AskAgent \/ ClearHistory

SpecQa == InitQa /\ [][NextQa]_vars

SpecExtract == InitExtract /\ [][NextExtract]_vars

TypeOK ==
    /\ pc \in {"embed", "search", "score", "loop", "widen_embed",
               "widen_search", "rank", "explain", "done", "raised",
               "fallback", "call", "retry", "extract", "ingest",
               "background", "pipeline", "qa"}
    /\ session_closed \in 0..1


\* ================================================================ claims
Returned == response.kind = "MatchResponse"
Results == response.results
PoolIndices == 0..Len(pet_objects) - 1
RankedSet == {ranked_indices[k] : k \in 1..Len(ranked_indices)}
InitialCandidates ==
    VectorSearch(db, query.max_results * 3, query.species_filter)
ScoredOk == {i \in 0..Len(pets) - 1 : future_result[BatchOf(i)].ok}
ModelScore(i) == future_result[BatchOf(i)].scores[PosIn(i)]

RECURSIVE SumModelScores(_)
SumModelScores(S) ==
    IF S = {} THEN 0
    ELSE LET i == CHOOSE x \in S : TRUE
         IN ModelScore(i)[1] + SumModelScores(S \ {i})

\* C1: whatever the batches did, _score_all_pets returns a score map with
\* exactly one entry per candidate index 0..N-1, each a number in [0,1] and
\* never None.
C1_ScoreMapComplete ==
    score_ret # None =>
        /\ DOMAIN score_ret[1] = 0..Len(pets) - 1
        /\ \A i \in DOMAIN score_ret[1] : InUnit(score_ret[1][i])

C1_Witness ==
    /\ entry = "_score_all_pets"
    /\ score_ret # None
    /\ Len(pets) > BATCH_SIZE
    /\ \E b \in DOMAIN future_result : ~future_result[b].ok
    /\ \E b \in DOMAIN future_result : future_result[b].ok

\* C2: when every scoring batch failed (llm_scored false), the returned
\* results are the pool ordered by similarity alone, best first: the results
\* are non-increasing in similarity and no candidate left out has a higher
\* similarity than a returned one.
C2_SimilarityOrderWhenUnscored ==
    (Returned /\ ~llm_scored) =>
        /\ \A k \in 1..Len(ranked_indices) - 1 :
                similarity_scores[ranked_indices[k]]
                    >= similarity_scores[ranked_indices[k + 1]]
        /\ \A i \in PoolIndices \ RankedSet : \A j \in RankedSet :
                similarity_scores[i] <= similarity_scores[j]

\* C3: the results of every response are sorted non-increasing by blended
\* score.
C3_SortedByBlended ==
    Returned =>
        \A k \in 1..Len(Results) - 1 :
            Results[k].similarity_score >= Results[k + 1].similarity_score

\* C4: no candidate of the final pool that was left out of the results has
\* a blended score strictly greater than a returned candidate's.
C4_TopByBlended ==
    Returned =>
        \A i \in PoolIndices \ RankedSet : \A k \in 1..Len(Results) :
            Blend(LlmWeight(llm_scored), VecWeight(llm_scored),
                  relevance_scores[i], similarity_scores[i])
                <= Results[k].similarity_score

\* C5: the number of results is min(max_results, size of the final pool),
\* hence never more than max_results.
C5_ResultCount ==
    Returned =>
        /\ Len(Results) = Min(query.max_results, Len(pet_objects))
        /\ Len(Results) <= query.max_results

C5_Witness ==
    /\ Returned
    /\ agent_round >= 1
    /\ Len(pet_objects) > Len(InitialCandidates)
    /\ Len(pet_objects) > query.max_results
    /\ Len(Results) = query.max_results

\* C6: every returned result has a non-empty explanation, whatever the
\* explanation call produced.
C6_ExplanationNonEmpty ==
    Returned =>
        \A k \in 1..Len(Results) : Results[k].explanation # <<>>

\* C7: the candidate pool never holds the same pet id twice.
C7_NoDuplicateIds ==
    \A i, j \in 1..Len(pet_objects) :
        i # j => pet_objects[i] # pet_objects[j]

C7_Witness ==
    /\ agent_round >= 1
    /\ pc = "loop"
    /\ Len(pet_objects) > Len(InitialCandidates)
    /\ Len(new_pairs) < Len(AgentWidenSearch(db, query, agent_round))

C8_RoundStartsOnlyWhenLow ==
    agent_round' # agent_round =>
        /\ agent_round' = agent_round + 1
        /\ agent_round < MAX_AGENT_ROUNDS
        /\ RLt(DictMax(relevance_scores, <<0, 1>>), LOW_CONFIDENCE_THRESHOLD)

C8_NothingNewEndsLoop ==
    (/\ pc = "widen_search"
     /\ ~raised'
     /\ \A k \in 1..Len(AgentWidenSearch(db, query, agent_round)) :
            \E m \in 1..Len(pet_objects) :
                pet_objects[m] = AgentWidenSearch(db, query, agent_round)[k].pet)
    => (pc' = "rank" /\ pet_objects' = pet_objects)

C8_NoSearchAfterLoop ==
    (pc \in {"rank", "explain", "done", "raised"}) =>
        (search_calls' = search_calls /\ agent_round' = agent_round)

\* C8: at most MAX_AGENT_ROUNDS widening rounds and 1 + MAX_AGENT_ROUNDS
\* vector searches; a round starts only while the best relevance score is
\* below the threshold and rounds remain; a widening search that brings
\* nothing new ends the loop; nothing is searched once ranking has begun.
C8_WideningBounded ==
    /\ [](agent_round <= MAX_AGENT_ROUNDS
          /\ search_calls <= 1 + MAX_AGENT_ROUNDS)
    /\ [][C8_RoundStartsOnlyWhenLow]_vars
    /\ [][C8_NothingNewEndsLoop]_vars
    /\ [][C8_NoSearchAfterLoop]_vars

C8_Witness ==
    /\ Returned
    /\ agent_round = MAX_AGENT_ROUNDS
    /\ search_calls = 1 + MAX_AGENT_ROUNDS
    /\ RLt(DictMax(relevance_scores, <<0, 1>>), LOW_CONFIDENCE_THRESHOLD)
    /\ Len(pet_objects) > query.max_results * 8

C10_NoCandidates ==
    (entry = "match_pets" /\ InitialCandidates = <<>>) =>
        /\ score_calls = 0 /\ explain_calls = 0 /\ agent_round = 0
        /\ search_calls <= 1
        /\ pc \in {"embed", "search", "done", "raised"}
        /\ pc = "done" =>
            /\ ~raised
            /\ Returned
            /\ Results = <<>>
            /\ response.reasoning_summary \notin {NullSummary, ""}

C10_Witness ==
    /\ entry = "match_pets"
    /\ pc = "done"
    /\ Len(db) > 0
    /\ InitialCandidates = <<>>
    /\ Results = <<>>

\* the pool indices whose scoring batch returned scores
PoolScoredOk == {i \in DOMAIN pool_hist : pool_hist[i].ok}
\* the pool indices scored in widening round r (0: the initial pass)
PoolOfRound(r) == {i \in DOMAIN pool_hist : pool_hist[i].round = r}
\* sub occurs in the string s
Contains(s, sub) ==
    \E i \in 1..(Len(s) - Len(sub) + 1) : SubSeq(s, i, i + Len(sub) - 1) = sub

C11_RaisedOnlyByEmbedOrSearch ==
    (raised' /\ ~raised) =>
        pc \in {"embed", "search", "widen_embed", "widen_search"}

C11_Answered ==
    (entry = "match_pets" /\ pc = "done" /\ InitialCandidates # <<>>) =>
        (~raised /\ Returned /\ Results # <<>>)

\* C11: when the initial search found a candidate, only a failing embedding
\* or vector-search call makes match_pets raise: no outcome of a scoring or
\* explanation call (timeout, connection failure, HTTP error, malformed or
\* wrongly shaped reply), not even every call failing, raises, and the
\* response returned then holds at least one result.
C11_ReasoningFailuresContained ==
    /\ [](C11_Answered /\ (raised <=> pc = "raised"))
    /\ [][C11_RaisedOnlyByEmbedOrSearch]_vars

C11_Witness ==
    /\ Returned
    /\ Results # <<>>
    /\ agent_round = MAX_AGENT_ROUNDS
    /\ score_calls >= 3
    /\ PoolScoredOk = {}
    /\ explain_calls = Len(Results)
    /\ \A k \in 1..Len(Results) :
            Results[k].explanation = PetFallbackReasoning(PetTable(Results[k].pet))

SimilarityNote == "Scores based primarily on profile similarity"

\* C12: in every response with at least one result, the summary carries the
\* note that scores are based primarily on profile similarity exactly when
\* llm_scored is false, which is exactly when no scoring batch of the
\* initial pass or of any widening round returned scores.
C12_SimilarityNote ==
    (Returned /\ Results # <<>>) =>
        /\ Contains(response.reasoning_summary, SimilarityNote) <=> ~llm_scored
        /\ ~llm_scored <=> PoolScoredOk = {}

C12_Witness ==
    /\ Returned
    /\ Results # <<>>
    /\ ~Contains(response.reasoning_summary, SimilarityNote)
    /\ PoolOfRound(0) \cap PoolScoredOk = {}
    /\ PoolOfRound(1) \cap PoolScoredOk # {}

\* C13: every relevance and every similarity score that enters blending
\* lies in [0,1], whatever the model and the retriever returned, so every
\* blended score lies in [0,1] and every match_percentage in 0..100.
C13_ScoresInUnitRange ==
    Returned =>
        /\ \A i \in PoolIndices :
                /\ InUnit(relevance_scores[i])
                /\ similarity_scores[i] \in 0..100
        /\ \A k \in 1..Len(Results) :
                /\ Results[k].similarity_score \in 0..10000
                /\ Results[k].match_percentage \in 0..100

\* the words of a fallback text that name an attribute of the pet
AttributeWords(pet) ==
    {pet.name, pet.breed, pet.energy_level \o "-energy",
     pet.size \o "-sized", pet.first_sentence \o ".",
     "children", "dogs", "cats"} \ {""}

\* C14: _pet_fallback_reasoning returns different texts for any two pets
\* whose attributes differ in at least one field, and each text names at
\* least one attribute of its pet.
C14_DistinctFallbackTexts ==
    (entry = "_pet_fallback_reasoning" /\ pc = "done") =>
        /\ pet_pair[1] # pet_pair[2] => fallback_texts[1] # fallback_texts[2]
        /\ \A i \in 1..Len(pet_pair) :
                \E t \in 1..Len(fallback_texts[i]) :
                    fallback_texts[i][t] \in AttributeWords(pet_pair[i])

Abs(x) == IF x < 0 THEN -x ELSE x

\* C15: every result's blended score is 0.7 * relevance + 0.3 * similarity
\* when llm_scored is true and 0.1 * relevance + 0.9 * similarity when it is
\* false, rounded to four decimals (it is the multiple of 1e-4 nearest to
\* the exact value), with the one weight pair for all results of the
\* response; match_percentage is the integer nearest to 100 * blended.
C15_BlendedScore ==
    Returned =>
        \A k \in 1..Len(Results) :
            LET rel == relevance_scores[ranked_indices[k]]
                sim == similarity_scores[ranked_indices[k]]
                \* rel[2] times the exact blended score, in units of 1e-4
                exact == IF llm_scored
                         THEN 70 * rel[1] + 30 * sim * rel[2]
                         ELSE 10 * rel[1] + 90 * sim * rel[2]
                blended == Results[k].similarity_score
            IN /\ 2 * Abs(blended * rel[2] - exact) <= rel[2]
               /\ 2 * Abs(Results[k].match_percentage * 100 - blended) <= 100

C15_Witness ==
    /\ Returned
    /\ llm_scored
    /\ Len(Results) >= 2
    /\ Results[1].similarity_score # Results[2].similarity_score
    /\ agent_round >= 1
    /\ pool_hist[ranked_indices[1]].ok # pool_hist[ranked_indices[2]].ok

C16_FlagNeverReverts == llm_scored => llm_scored'

C17_RetriedBeforeNone ==
    \A b \in DOMAIN future_result :
        ~future_result[b].ok => attempts[b] = 1 + MAX_RETRIES

RECURSIVE SumRelevance(_)
\* the sum of the numerators of the relevance scores of S (model scores:
\* denominator 1)
SumRelevance(S) ==
    IF S = {} THEN 0
    ELSE LET i == CHOOSE x \in S : TRUE
         IN relevance_scores[i][1] + SumRelevance(S \ {i})

\* C18 as claimed: once some candidate of the pool has a model score, every
\* candidate whose batch failed carries the mean of the model scores of the
\* whole pool, whatever round scored them.
C18_WholePoolMean ==
    (entry = "match_pets" /\ PoolScoredOk # {}) =>
        \A i \in DOMAIN pool_hist \ PoolScoredOk :
            relevance_scores[i][1] * Cardinality(PoolScoredOk)
                = SumRelevance(PoolScoredOk) * relevance_scores[i][2]

\* C18, amended: a candidate whose batch failed carries the mean of the
\* model scores of the _score_all_pets call that scored it (the initial
\* pass, or its own widening round), or 0.5 when no batch of that call
\* returned scores; later rounds do not change it.
C18_RoundMean ==
    entry = "match_pets" =>
        \A i \in DOMAIN pool_hist \ PoolScoredOk :
            LET peers == PoolOfRound(pool_hist[i].round) \cap PoolScoredOk
            IN IF peers = {} THEN relevance_scores[i] = NEUTRAL
               ELSE relevance_scores[i][1] * Cardinality(peers)
                        = SumRelevance(peers) * relevance_scores[i][2]

C18_Witness ==
    /\ pc = "done"
    /\ agent_round = MAX_AGENT_ROUNDS
    /\ \E i \in PoolOfRound(1) \ PoolScoredOk :
            /\ PoolOfRound(1) \cap PoolScoredOk # {}
            /\ PoolOfRound(0) \cap PoolScoredOk # {}
            /\ relevance_scores[i][1] * Cardinality(PoolScoredOk)
                    # SumRelevance(PoolScoredOk) * relevance_scores[i][2]

\* C19: a widening round starts only when the model scored at least one
\* candidate (and the best score is below the threshold); when every batch
\* failed there is no widening round, no further vector search and no
\* further scoring call.
C19_WideningNeedsModelScore ==
    entry = "match_pets" =>
        /\ pc = "widen_embed" => PoolScoredOk # {}
        /\ (DOMAIN pool_hist # {} /\ PoolScoredOk = {}) =>
                /\ agent_round = 0
                /\ search_calls = 1
                /\ score_calls = NumBatches(Len(InitialCandidates))

\* the similarity the retriever reports for a stored pet
SimilarityOf(pet) == db[CHOOSE j \in 1..Len(db) : db[j].id = pet].sim

C20_RoundFrame ==
    (pc = "score" /\ pc' = "loop" /\ agent_round >= 1) =>
        LET offset == Len(pet_objects)
        IN /\ \A k \in 1..Len(pets) : \A m \in 1..offset :
                    pets[k] # pet_objects[m]
           /\ Len(pet_objects') = offset + Len(pets)
           /\ \A i \in PoolIndices :
                    /\ pet_objects'[i + 1] = pet_objects[i + 1]
                    /\ relevance_scores'[i] = relevance_scores[i]
                    /\ similarity_scores'[i] = similarity_scores[i]
           /\ \A k \in 1..Len(pets) :
                    /\ pet_objects'[offset + k] = pets[k]
                    /\ relevance_scores'[offset + k - 1] = score_ret'[1][k - 1]

C20_MapsKeyedByPool ==
    (/\ entry = "match_pets"
     /\ pc \in {"loop", "widen_embed", "widen_search", "rank", "explain",
                "done"}
     /\ pet_objects # <<>>) =>
        /\ DOMAIN relevance_scores = PoolIndices
        /\ DOMAIN similarity_scores = PoolIndices
        /\ \A i \in PoolIndices :
                similarity_scores[i] = SimilarityOf(pet_objects[i + 1])

\* C20: a widening round scores only pets that are not in the pool, appends
\* them and their scores behind the pool and leaves the pool's pets and
\* their relevance and similarity scores as they were; between rounds both
\* maps are keyed by exactly 0..len(pool)-1 and the similarity at an index
\* is that of the pet at that index.
C20_WideningFrame ==
    /\ []C20_MapsKeyedByPool
    /\ [][C20_RoundFrame]_vars

C20_Witness ==
    /\ pc = "loop"
    /\ agent_round = MAX_AGENT_ROUNDS
    /\ PoolOfRound(1) # {}
    /\ PoolOfRound(2) # {}
    /\ \E i \in PoolOfRound(0), j \in PoolOfRound(2) :
            ~REq(relevance_scores[i], relevance_scores[j])

\* a step in which the embedding provider or vector_search fails
EmbedOrSearchFails ==
    EmbedFails \/ SearchFails \/ WidenEmbedFails \/ WidenSearchFails

C26_FailureStep ==
    /\ EmbedOrSearchFails =>
            (raised' /\ pc' = "raised" /\ response' = NoResponse)
    /\ (raised' /\ ~raised) => EmbedOrSearchFails

\* C26: a failing embedding or vector-search call, in the initial search or
\* in a widening round, ends match_pets with an exception and without any
\* response, whatever was scored before; these are the only steps that end
\* it with an exception, and once raised no response is ever there.
C26_EmbedSearchFailurePropagates ==
    /\ [](raised => (response = NoResponse /\ pc = "raised"))
    /\ [][C26_FailureStep]_vars

C26_Witness ==
    /\ raised
    /\ response = NoResponse
    /\ agent_round = MAX_AGENT_ROUNDS
    /\ search_calls = 1 + MAX_AGENT_ROUNDS
    /\ PoolScoredOk # {}

\* C28: the session match_pets opened is closed exactly once when it is
\* left, by the early return, the normal return or an exception, and is
\* not closed before.
C28_SessionClosedOnce ==
    entry = "match_pets" =>
        session_closed = (IF pc \in {"done", "raised"} THEN 1 ELSE 0)

C28_Witness ==
    /\ entry = "match_pets"
    /\ pc = "raised"
    /\ session_closed = 1
    /\ score_calls >= 1
    /\ agent_round = 1

\* the scores recorded when the consumed batches are taken in the order
\* they were submitted
RECURSIVE SubmissionOrderScores(_)
SubmissionOrderScores(k) ==
    IF k = 0 THEN EmptyDict
    ELSE LET rest == SubmissionOrderScores(k - 1)
         IN IF k \in pending THEN rest
            ELSE RecordBatch(rest, BatchIndices(Len(pets), k), future_result[k])

ConsumedOk == \E b \in DOMAIN future_result : b \notin pending /\ future_result[b].ok

AfterScoring == pc \in {"rank", "explain", "done"}

C21_PhaseStep ==
    /\ (entry = "match_pets" /\ AfterScoring) =>
            (score_calls' = score_calls /\ search_calls' = search_calls
             /\ UNCHANGED <<relevance_scores, pet_objects>>)
    /\ explain_log' # explain_log =>
            (pc' = "explain" /\ ranked_indices' # <<>>)
    /\ explain_calls' # explain_calls => pc = "explain"

C21_PhaseState ==
    /\ (entry = "match_pets" /\ AfterScoring) =>
            (pending = {} /\ in_flight = {} /\ completed = {})
    /\ \A pet \in DOMAIN explain_log :
            /\ explain_log[pet] = 1
            /\ \E k \in 1..Len(ranked_indices) :
                    pet_objects[ranked_indices[k] + 1] = pet
    /\ explain_calls <= Len(ranked_indices)
    /\ (Returned /\ Results # <<>>) =>
            /\ DOMAIN explain_log = {Results[k].pet : k \in 1..Len(Results)}
            /\ explain_calls = Len(Results)

\* C21: once ranking starts no scoring call is queued, running or
\* unconsumed and no scoring or search call follows; explanation calls are
\* made only after the ranking; each is for a pet of the ranked result
\* list, at most one per pet, and a returned response has had exactly one
\* call for each of its results and none for any other pet.
C21_PhaseOrder ==
    /\ []C21_PhaseState
    /\ [][C21_PhaseStep]_vars

C21_Witness ==
    /\ Returned
    /\ agent_round >= 1
    /\ Len(Results) = 2
    /\ Len(pet_objects) > Len(Results)
    /\ ranked_indices[1] # 0
    /\ explain_calls = 2
    /\ score_calls >= 2

\* C23: at every moment at most MAX_WORKERS calls of the reasoning endpoint
\* are in flight, in the scoring phase and in the explanation phase alike.
C23_InFlightAtMostMaxWorkers ==
    /\ Cardinality(in_flight) <= MAX_WORKERS
    /\ Cardinality(explain_in_flight) <= MAX_WORKERS

RECURSIVE Power(_, _)
Power(b, e) == IF e = 0 THEN 1 ELSE b * Power(b, e - 1)

C25_RetryState ==
    entry = "retry_with_backoff" =>
        /\ Len(retry_calls) <= retry_cfg.max_retries + 1
        /\ Len(retry_sleeps) <= retry_cfg.max_retries
        /\ \A k \in 1..Len(retry_sleeps) :
                /\ retry_calls[k] \in RetryableErrors
                /\ retry_sleeps[k] =
                    retry_cfg.base_delay * Power(retry_cfg.backoff_factor, k - 1)
        /\ retry_result = None => Len(retry_sleeps) = Len(retry_calls)
        /\ retry_result # None =>
            /\ Len(retry_sleeps) = Len(retry_calls) - 1
            /\ retry_result.value =
                    <<retry_calls[Len(retry_calls)], Len(retry_calls)>>
            /\ retry_result.kind = "return" <=> retry_result.value[1] = ""
            /\ (retry_result.kind = "raise"
                    /\ retry_result.value[1] \in RetryableErrors) =>
                        Len(retry_calls) = retry_cfg.max_retries + 1

C25_RetryStep ==
    (entry = "retry_with_backoff" /\ retry_result # None) =>
        UNCHANGED <<retry_calls, retry_sleeps, retry_result>>

\* C25: a function wrapped by retry_with_backoff(m, d, f) is called at most
\* m+1 times; its first normal return is returned and ends the calls; the
\* k-th retryable failure, k <= m, is followed by a sleep of d*f^(k-1) and
\* the next call, and nothing is slept after the last call; after m+1
\* retryable failures the error of the last call is raised; any other
\* exception is raised by the call that threw it, with no sleep.
C25_RetryWithBackoff ==
    /\ []C25_RetryState
    /\ [][C25_RetryStep]_vars

C25_Witness ==
    /\ entry = "retry_with_backoff"
    /\ retry_cfg.max_retries = 2
    /\ retry_cfg.base_delay = 3
    /\ retry_cfg.backoff_factor = 2
    /\ retry_sleeps = <<3, 6>>
    /\ retry_result = [kind |-> "raise", value |-> <<"ConnectError", 3>>]

\* what each strategy hands to json.loads, in the order they are tried
StrategyInputs(text) ==
    <<[found |-> TRUE, partial |-> FALSE, tokens |-> Strip(text)],
      [found |-> TRUE, partial |-> FALSE, tokens |-> Strip(RemoveFences(text))]>>
    \o <<ShortestMatch(text, "{", "}"), ShortestMatch(text, "[", "]"),
         LazyMatch(text, "{", "}"), LazyMatch(text, "[", "]")>>

Succeeding(text) ==
    {k \in 1..Len(StrategyInputs(text)) : LoadsMatch(StrategyInputs(text)[k]).ok}

C27_FirstSuccess ==
    (entry = "_extract_json" /\ pc = "done") =>
        LET ok == Succeeding(extract_text)
        IN IF ok = {}
           THEN extract_ret = [kind |-> "raise", value |-> "ValueError"]
           ELSE LET first == CHOOSE k \in ok : \A j \in ok : k <= j
                IN extract_ret =
                    [kind |-> "return",
                     value |-> LoadsMatch(StrategyInputs(extract_text)[first]).value]

C27_NoSideEffect ==
    entry = "_extract_json" =>
        UNCHANGED <<extract_text, batchVars, retryVars, jobVars, matcherVars, qaVars>>

\* C27: _extract_json returns the value of the first strategy that parses,
\* in the order: the trimmed text, the text without fence markers, the first
\* match of the brace pattern without inner braces, of the bracket pattern
\* without inner brackets, of the lazy brace pattern and of the lazy bracket
\* pattern; it raises ValueError exactly when none parses; the call changes
\* nothing but its own result.
C27_ExtractOrder ==
    /\ []C27_FirstSuccess
    /\ [][C27_NoSideEffect]_vars

C27_Witness ==
    /\ entry = "_extract_json"
    /\ pc = "done"
    /\ extract_text = <<"{", "[", "]", "}">>
    /\ extract_ret = [kind |-> "return", value |-> <<"[", "]">>]

Finished == {"completed", "failed"}

C29_PipelineDone ==
    (entry = "start_ingestion" /\ pc = "done" /\ pipeline_job # NoJob) =>
        /\ returned_job = pipeline_job
        /\ jobs[returned_job] \in Finished

C29_NeverBack ==
    \A j \in DOMAIN jobs : jobs[j] \in Finished => jobs'[j] = jobs[j]

\* C29: the job whose id POST /ingest returned is the job the pipeline
\* updates: when the pipeline has finished it is completed or failed, not
\* pending; and a completed or failed job keeps its status.
C29_ReturnedJobFinishes ==
    /\ []C29_PipelineDone
    /\ [][C29_NeverBack]_vars

\* C30: every session's stored history is the last min(40, total) messages
\* of the question and answer pairs of the successful asks made with that
\* session id since its last clear (so a failed ask, and an ask without a
\* session id, leave every history as it was), and no history is longer
\* than 40 messages.
C30_HistoryIsLastPairs ==
    entry = "ask_agent" =>
        \A s \in SessionIds :
            /\ GetHistory(conversations, s) = LastN(qa_log[s], 2 * MAX_HISTORY_TURNS)
            /\ Len(GetHistory(conversations, s)) <= 2 * MAX_HISTORY_TURNS

====
